---- MODULE Spec2Model ----
(***************************************************************************)
(* Model of the handAbility backend: the repetition state machine          *)
(* (backend/state_manager.py) and the /analyze and /reset request handlers *)
(* (backend/app.py) that drive the one module-level StateManager.          *)
(*                                                                         *)
(* Time is in milliseconds.  Labels are Python strings; the three string   *)
(* methods the state machine uses (startswith, replace, endswith) are      *)
(* computed on a decomposition of each label into tokens.                  *)
(***************************************************************************)
EXTENDS Integers, Sequences, FiniteSets, TLC

VARIABLES
    states,        \* state_manager.states: exercise type -> record (a Python dict)
    now,           \* the value time.time() returns, in ms
    ret,           \* the last call made and what it returned
    hist,          \* per exercise type, the most recent update_state calls since the last reset
    seq_progress,  \* how much of the full thumb-opposition sequence the last calls have spelled
    seen,          \* what update_state has accepted since the start, the last reset or the last count
    driven,        \* the exercise type the client has open in this run
    calls          \* the update_state calls of request handlers that run at the same time

vars == <<states, now, ret, hist, seq_progress, seen, driven, calls>>

----------------------------------------------------------------------------
(* Bounds of the model *)

\* the clock advances in steps of TickMs, up to MaxTicks steps
TickMs == 100
MaxTicks == 4
\* update_state calls that would push a count above MaxReps are not explored
MaxReps == 2
\* number of logged-in client sessions
NumSessions == 2

MaxTime == MaxTicks * TickMs
Sessions == 1..NumSessions

----------------------------------------------------------------------------
(* Constants of the program *)

\* self.MIN_STATE_DURATION = 0.2 seconds
MIN_STATE_DURATION == 200

ExerciseTypes ==
    {"open_close", "pinch", "abduction_adduction", "thumb_opposition", "finger_lifts"}

DebouncedTypes == {"open_close", "pinch", "abduction_adduction"}

\* ('INDEX', 'MIDDLE', 'RING', 'PINKY'), indexed from 0 in the code
FingerSequence == <<"INDEX", "MIDDLE", "RING", "PINKY">>

----------------------------------------------------------------------------
(* Strings *)

\* Each label the model submits, cut into the tokens the string methods look at.
Tokens ==
    [ OPEN              |-> <<"OPEN">>,
      CLOSED            |-> <<"CLOSED">>,
      SPREAD            |-> <<"SPREAD">>,
      TRANSITION        |-> <<"TRANSITION">>,
      TRANSITIONING     |-> <<"TRANSITIONING">>,
      UNKNOWN           |-> <<"UNKNOWN">>,
      TRACKING          |-> <<"TRACKING">>,
      NONE              |-> <<"NONE">>,
      RELEASE           |-> <<"RELEASE">>,
      TOUCH_INDEX       |-> <<"TOUCH_", "INDEX">>,
      TOUCH_MIDDLE      |-> <<"TOUCH_", "MIDDLE">>,
      TOUCH_RING        |-> <<"TOUCH_", "RING">>,
      TOUCH_PINKY       |-> <<"TOUCH_", "PINKY">>,
      TOUCH_THUMB       |-> <<"TOUCH_", "THUMB">>,
      TOUCH_TOUCH_INDEX |-> <<"TOUCH_", "TOUCH_", "INDEX">>,
      INDEX_UP          |-> <<"INDEX", "_UP">>,
      MIDDLE_UP         |-> <<"MIDDLE", "_UP">>,
      RING_UP           |-> <<"RING", "_UP">>,
      PINKY_UP          |-> <<"PINKY", "_UP">>,
      THUMB_UP          |-> <<"THUMB", "_UP">> ]

Labels == DOMAIN Tokens

\* str.startswith(prefix), prefix a single token
startswith(s, prefix) == Len(Tokens[s]) > 0 /\ Head(Tokens[s]) = prefix

\* str.endswith(suffix), suffix a single token
endswith(s, suffix) == Len(Tokens[s]) > 0 /\ Tokens[s][Len(Tokens[s])] = suffix

\* str.replace(old, ''): every occurrence of old is removed; the result as tokens
replace_with_empty(s, old) == SelectSeq(Tokens[s], LAMBDA t : t # old)

----------------------------------------------------------------------------
(* Python dicts *)

\* dict.get(key, default)
Get(d, key, default) == IF key \in DOMAIN d THEN d[key] ELSE default

\* d[key] = value, which adds the key when the dict has none
Put(d, key, value) ==
    [k \in DOMAIN d \cup {key} |-> IF k = key THEN value ELSE d[k]]

----------------------------------------------------------------------------
(* StateManager *)

\* StateManager.__init__: the five records, t the value of time.time()
InitialStates(t) ==
    [ open_close |->
        [current_state |-> "OPEN", previous_state |-> "OPEN",
         repetitions |-> 0, last_state_change |-> t],
      pinch |->
        [current_state |-> "OPEN", previous_state |-> "OPEN",
         repetitions |-> 0, last_state_change |-> t],
      abduction_adduction |->
        [current_state |-> "CLOSED", previous_state |-> "CLOSED",
         repetitions |-> 0, last_state_change |-> t],
      thumb_opposition |->
        [current_state |-> "TRACKING", previous_state |-> "TRACKING",
         repetitions |-> 0, last_state_change |-> t,
         sequence_index |-> 0, is_touching |-> FALSE],
      finger_lifts |->
        [current_state |-> "NONE", previous_state |-> "NONE",
         repetitions |-> 0, last_state_change |-> t] ]

\* the record reset() writes, whatever the exercise type
ResetRecord(t) ==
    [current_state |-> "OPEN", previous_state |-> "OPEN",
     repetitions |-> 0, last_state_change |-> t]

\* reset that forgets to zero the count
resetKeepsCount(S, exercise_type, t) ==
    IF exercise_type \in DOMAIN S
    THEN [S EXCEPT ![exercise_type] =
            Put(ResetRecord(t), "repetitions", S[exercise_type]["repetitions"])]
    ELSE S

\* reset that rebuilds the record of every exercise
resetAll(S, exercise_type, t) ==
    IF exercise_type \in DOMAIN S
    THEN [e \in DOMAIN S |-> ResetRecord(t)]
    ELSE S

\* reset that leaves the record as it is
resetIgnored(S, exercise_type, t) == S

\* StateManager.reset
reset(S, exercise_type, t) ==
    IF exercise_type \in DOMAIN S
    THEN [S EXCEPT ![exercise_type] = ResetRecord(t)]
    ELSE S

\* a commit that forgets previous_state
CommitKeepsPrevious(exercise_state, current_state, new_state, t) ==
    Put(Put(exercise_state, "current_state", new_state), "last_state_change", t)

\* the three assignments every accepted change ends with
Commit(exercise_state, current_state, new_state, t) ==
    Put(Put(Put(exercise_state, "previous_state", current_state),
            "current_state", new_state),
        "last_state_change", t)

\* CountRep with the sign of the increment wrong
CountRepDown(exercise_state) ==
    Put(exercise_state, "repetitions", exercise_state["repetitions"] - 1)

\* exercise_state['repetitions'] += 1
CountRep(exercise_state) ==
    Put(exercise_state, "repetitions", exercise_state["repetitions"] + 1)

\* what update_state returns, with the record it leaves behind
Return(exercise_state, changed) ==
    [record |-> exercise_state, changed |-> changed,
     repetitions |-> exercise_state["repetitions"]]

\* the finger the cursor expects
ExpectedFinger(exercise_state) ==
    FingerSequence[Get(exercise_state, "sequence_index", 0) + 1]

\* the cursor after an accepted touch
NextSequenceIndex(exercise_state) ==
    (Get(exercise_state, "sequence_index", 0) + 1) % 4

\* a wrap seen one finger early
WrapsAroundEarly(exercise_state) == exercise_state["sequence_index"] = 3

\* the cursor has wrapped to 0: PINKY was just touched
WrapsAround(exercise_state) == exercise_state["sequence_index"] = 0

\* Release that leaves the flag set
ReleaseKeepsTouching(exercise_state) == exercise_state

\* exercise_state['is_touching'] = False, on an accepted RELEASE or TRANSITION
Release(exercise_state) == Put(exercise_state, "is_touching", FALSE)

\* a touch accepted whatever is_touching reads
TouchAcceptedWhileTouching(exercise_state, new_state) ==
    replace_with_empty(new_state, "TOUCH_") = <<ExpectedFinger(exercise_state)>>

\* the condition under which a TOUCH_ label is accepted: the finger is the
\* expected one and is_touching reads false
TouchAccepted(exercise_state, new_state) ==
    /\ replace_with_empty(new_state, "TOUCH_") = <<ExpectedFinger(exercise_state)>>
    /\ ~Get(exercise_state, "is_touching", FALSE)

\* a release accepted whatever is_touching reads
ReleaseAcceptedAlways(exercise_state) == TRUE

\* a RELEASE or TRANSITION is accepted: is_touching reads true
ReleaseAccepted(exercise_state) == Get(exercise_state, "is_touching", FALSE)

\* update_state, the thumb_opposition branch
UpdateThumbOpposition(exercise_state, new_state, t) ==
    LET current_state == exercise_state["current_state"] IN
    IF startswith(new_state, "TOUCH_")
    THEN IF TouchAccepted(exercise_state, new_state)
         THEN LET touching == Put(exercise_state, "is_touching", TRUE)
                  advanced == Put(touching, "sequence_index",
                                  NextSequenceIndex(exercise_state))
                  counted  == IF WrapsAround(advanced)
                              THEN CountRep(advanced)
                              ELSE advanced
              IN Return(Commit(counted, current_state, new_state, t), TRUE)
         ELSE Return(exercise_state, FALSE)
    ELSE IF new_state \in {"RELEASE", "TRANSITION"}
    THEN IF ReleaseAccepted(exercise_state)
         THEN Return(Commit(Release(exercise_state),
                            current_state, new_state, t), TRUE)
         ELSE Return(exercise_state, FALSE)
    ELSE Return(exercise_state, FALSE)

\* TRANSITIONING left as it is
NormalizeNothing(new_state) == new_state

\* TRANSITIONING is read as TRANSITION
Normalize(new_state) ==
    IF new_state = "TRANSITIONING" THEN "TRANSITION" ELSE new_state

\* FingerLiftCounts that counts a raised finger giving way to any other label
FingerLiftCountsAnyChange(current_state, new_state) ==
    endswith(current_state, "_UP") /\ new_state # current_state

\* FingerLiftCounts that does not look at the current label
FingerLiftCountsAnyNone(current_state, new_state) ==
    new_state = "NONE"

\* finger_lifts counts when a raised finger returns to NONE
FingerLiftCounts(current_state, new_state) ==
    endswith(current_state, "_UP") /\ new_state = "NONE"

\* update_state, the finger_lifts branch
UpdateFingerLifts(exercise_state, new_state_in, t) ==
    LET current_state == exercise_state["current_state"]
        new_state == Normalize(new_state_in)
    IN
    IF new_state = "TRANSITION"
    THEN Return(exercise_state, FALSE)
    ELSE LET counted == IF FingerLiftCounts(current_state, new_state)
                        THEN CountRep(exercise_state)
                        ELSE exercise_state
         IN IF new_state # current_state
            THEN Return(Commit(counted, current_state, new_state, t), TRUE)
            ELSE Return(counted, FALSE)

\* HoldElapsed with > for >=
HoldElapsedStrict(time_since_change) == time_since_change > MIN_STATE_DURATION

\* the hold time has elapsed
HoldElapsed(time_since_change) == time_since_change >= MIN_STATE_DURATION

\* CompletesCycle with the edge of open_close and pinch taken the other way round
CompletesCycleOnClose(exercise_type, current_state, new_state) ==
    IF exercise_type \in {"open_close", "pinch"}
    THEN current_state = "OPEN" /\ new_state = "CLOSED"
    ELSE IF exercise_type = "abduction_adduction"
    THEN current_state = "CLOSED" /\ new_state = "SPREAD"
    ELSE FALSE

\* a cycle that every move to the end label completes
CompletesCycleFromAnywhere(exercise_type, current_state, new_state) ==
    IF exercise_type \in {"open_close", "pinch"}
    THEN new_state = "OPEN"
    ELSE IF exercise_type = "abduction_adduction"
    THEN new_state = "SPREAD"
    ELSE FALSE

\* the closing edge of the cycle of a debounced exercise
CompletesCycle(exercise_type, current_state, new_state) ==
    IF exercise_type \in {"open_close", "pinch"}
    THEN current_state = "CLOSED" /\ new_state = "OPEN"
    ELSE IF exercise_type = "abduction_adduction"
    THEN current_state = "CLOSED" /\ new_state = "SPREAD"
    ELSE FALSE

\* update_state, the branch of every other exercise type; t1 and t2 are the
\* two values of time.time() the branch reads
UpdateDebounced(exercise_type, exercise_state, new_state_in, t1, t2) ==
    LET current_state == exercise_state["current_state"]
        time_since_change == t1 - exercise_state["last_state_change"]
        new_state == Normalize(new_state_in)
    IN
    IF new_state = "TRANSITION"
    THEN Return(exercise_state, FALSE)
    ELSE IF new_state # current_state /\ HoldElapsed(time_since_change)
    THEN LET counted == IF CompletesCycle(exercise_type, current_state, new_state)
                        THEN CountRep(exercise_state)
                        ELSE exercise_state
         IN Return(Commit(counted, current_state, new_state, t2), TRUE)
    ELSE Return(exercise_state, FALSE)

\* UpdateRecord that sends finger_lifts through the timed branch
UpdateRecordAllTimed(exercise_type, exercise_state, new_state, t1, t2) ==
    IF exercise_type = "thumb_opposition"
    THEN UpdateThumbOpposition(exercise_state, new_state, t2)
    ELSE UpdateDebounced(exercise_type, exercise_state, new_state, t1, t2)

\* StateManager.update_state on the record of a known exercise type
UpdateRecord(exercise_type, exercise_state, new_state, t1, t2) ==
    IF exercise_type = "thumb_opposition"
    THEN UpdateThumbOpposition(exercise_state, new_state, t2)
    ELSE IF exercise_type = "finger_lifts"
    THEN UpdateFingerLifts(exercise_state, new_state, t2)
    ELSE UpdateDebounced(exercise_type, exercise_state, new_state, t1, t2)

\* StateManager.update_state: the states it leaves, and the tuple it returns
\* or the exception it raises
update_state(S, exercise_type, new_state, t1, t2) ==
    IF exercise_type \notin DOMAIN S
    THEN [states |-> S, raised |-> "ValueError",
          changed |-> FALSE, repetitions |-> 0]
    ELSE LET r == UpdateRecord(exercise_type, S[exercise_type], new_state, t1, t2)
         IN [states |-> [S EXCEPT ![exercise_type] = r.record], raised |-> "",
             changed |-> r.changed, repetitions |-> r.repetitions]

\* StateManager.get_repetitions
get_repetitions(S, exercise_type) ==
    IF exercise_type \in DOMAIN S THEN S[exercise_type]["repetitions"] ELSE 0

\* StateManager.get_current_state
get_current_state(S, exercise_type) ==
    IF exercise_type \in DOMAIN S THEN S[exercise_type]["current_state"] ELSE "OPEN"

----------------------------------------------------------------------------
(* Landmark frames and the five detectors *)

\* A frame is a Python list of points; point i of the code is element i + 1
\* here.  A point is a dict with keys among x, y, z; coordinates are integers,
\* 1000 to the unit of the tracker.  Distances are computed in those units
\* and rounded down; quotients by the palm size are compared after
\* multiplying out, in millionths of the tracker's unit.
At(landmarks, i) == landmarks[i + 1]

\* list indices the code reads exist
HasIndex(landmarks, i) == i + 1 <= Len(landmarks)

\* the coordinates of a point: three for open_close and pinch, two for the
\* other detectors
XYZ == {"x", "y", "z"}
XY == {"x", "y"}

\* point[k] does not raise KeyError for the keys in ks
HasKeys(point, ks) == ks \subseteq DOMAIN point

RECURSIVE SqrtSearch(_, _, _)
SqrtSearch(n, lo, hi) ==
    IF lo >= hi THEN lo
    ELSE LET mid == (lo + hi + 1) \div 2
         IN IF mid * mid <= n
            THEN SqrtSearch(n, mid, hi)
            ELSE SqrtSearch(n, lo, mid - 1)

\* math.sqrt, rounded down
sqrt(n) == SqrtSearch(n, 0, 2000)

\* calculate_distance of open_close and pinch: three coordinates
calculate_distance(point1, point2) ==
    LET dx == point1["x"] - point2["x"]
        dy == point1["y"] - point2["y"]
        dz == point1["z"] - point2["z"]
    IN sqrt(dx * dx + dy * dy + dz * dz)

\* _dist of the other three detectors: x and y only
dist2(a, b) ==
    sqrt((a["x"] - b["x"]) * (a["x"] - b["x"])
         + (a["y"] - b["y"]) * (a["y"] - b["y"]))

\* a palm size without the floor
palm_sizeUnfloored(landmarks) ==
    IF Len(landmarks) < 10 THEN 1000000
    ELSE dist2(At(landmarks, 0), At(landmarks, 9)) * 1000

\* _palm_size raises: a point it reads lacks a coordinate
palm_size_raises(landmarks) ==
    /\ Len(landmarks) >= 10
    /\ \E i \in {0, 9} : ~HasKeys(At(landmarks, i), XY)

\* _palm_size, in millionths: 1.0 for fewer than 10 points, floored at 1e-6
palm_size(landmarks) ==
    IF Len(landmarks) < 10 THEN 1000000
    ELSE LET size == dist2(At(landmarks, 0), At(landmarks, 9)) * 1000
         IN IF size > 1 THEN size ELSE 1

\* what a detector call yields: a label, or an exception that leaves it
Returns(label) == [raised |-> FALSE, label |-> label]
Raises == [raised |-> TRUE, label |-> ""]

\* HandOpenCloseDetector.detect_state
OpenCloseDetect(landmarks) ==
    IF Len(landmarks) = 0 \/ Len(landmarks) < 21
    THEN Returns("TRANSITION")
    ELSE IF \E i \in {0, 8, 12, 16, 20} : ~HasKeys(At(landmarks, i), XYZ)
    THEN Returns("TRANSITION")
    ELSE LET wrist == At(landmarks, 0)
             total == calculate_distance(wrist, At(landmarks, 8))
                      + calculate_distance(wrist, At(landmarks, 12))
                      + calculate_distance(wrist, At(landmarks, 16))
                      + calculate_distance(wrist, At(landmarks, 20))
         IN IF total > 4 * 250 THEN Returns("OPEN")
            ELSE IF total < 4 * 150 THEN Returns("CLOSED")
            ELSE Returns("TRANSITION")

\* PinchDetector.detect_state
PinchDetect(landmarks) ==
    IF Len(landmarks) = 0 \/ Len(landmarks) < 21
    THEN Returns("TRANSITION")
    ELSE IF \E i \in {4, 8} : ~HasKeys(At(landmarks, i), XYZ)
    THEN Returns("TRANSITION")
    ELSE LET distance == calculate_distance(At(landmarks, 4), At(landmarks, 8))
         IN IF distance > 80 THEN Returns("OPEN")
            ELSE IF distance < 40 THEN Returns("CLOSED")
            ELSE Returns("TRANSITION")

\* AbductionAdductionDetector.detect_state, with calculate_finger_spread
AbductionDetect(landmarks) ==
    IF Len(landmarks) = 0 \/ Len(landmarks) < 21
    THEN Returns("UNKNOWN")
    ELSE IF \E i \in {0, 9, 8, 12, 16, 20} : ~HasKeys(At(landmarks, i), XY)
    THEN Raises
    ELSE LET palm == palm_size(landmarks)
             gaps == ( dist2(At(landmarks, 8), At(landmarks, 12))
                     + dist2(At(landmarks, 12), At(landmarks, 16))
                     + dist2(At(landmarks, 16), At(landmarks, 20)) ) * 1000
         IN IF gaps * 100 >= 34 * 3 * palm THEN Returns("SPREAD")
            ELSE IF gaps * 100 <= 20 * 3 * palm THEN Returns("CLOSED")
            ELSE Returns("TRANSITIONING")

\* self.fingers of FingerLiftsDetector, in the order the dict is walked:
\* name, tip index, pip index
LiftFingers ==
    << <<"INDEX", 8, 6>>, <<"MIDDLE", 12, 10>>,
       <<"RING", 16, 14>>, <<"PINKY", 20, 18>> >>

\* pip['y'] - tip['y'] of finger k, in millionths
LiftOf(landmarks, k) ==
    ( At(landmarks, LiftFingers[k][3])["y"]
    - At(landmarks, LiftFingers[k][2])["y"] ) * 1000

\* the loop over self.fingers: the first finger with the largest score above 0
\* (scores are the lifts over one palm size, so the lifts are compared)
RECURSIVE BestLift(_, _, _)
BestLift(landmarks, k, best) ==
    IF k > Len(LiftFingers) THEN best
    ELSE IF LiftOf(landmarks, k) > best.lift
    THEN BestLift(landmarks, k + 1,
                  [finger |-> LiftFingers[k][1], lift |-> LiftOf(landmarks, k)])
    ELSE BestLift(landmarks, k + 1, best)

\* FingerLiftsDetector.detect_state
FingerLiftsDetect(landmarks) ==
    IF Len(landmarks) = 0 \/ Len(landmarks) < 21
    THEN Returns("UNKNOWN")
    ELSE IF \/ \E i \in {0, 9} : ~HasKeys(At(landmarks, i), XY)
            \/ \E i \in {8, 6, 12, 10, 16, 14, 20, 18} :
                 ~HasKeys(At(landmarks, i), {"y"})
    THEN Raises
    ELSE LET palm == palm_size(landmarks)
             best == BestLift(landmarks, 1, [finger |-> "", lift |-> 0])
         IN IF best.finger # "" /\ best.lift * 1000 >= 55 * palm
            THEN Returns(best.finger \o "_UP")
            ELSE IF best.lift * 1000 <= 35 * palm
            THEN Returns("NONE")
            ELSE Returns("TRANSITION")

\* self.finger_tips of ThumbOppositionDetector
TipIndex(finger) ==
    CASE finger = "INDEX" -> 8
      [] finger = "MIDDLE" -> 12
      [] finger = "RING" -> 16
      [] finger = "PINKY" -> 20

\* ThumbOppositionDetector.detect_touch_target: a boolean, or an exception
detect_touch_target(landmarks, target_finger) ==
    IF \/ Len(landmarks) >= 10
          /\ \E i \in {0, 9} : ~HasKeys(At(landmarks, i), XY)
       \/ ~HasIndex(landmarks, 4)
       \/ ~HasIndex(landmarks, TipIndex(target_finger))
    THEN [raised |-> TRUE, touch |-> FALSE]
    ELSE IF \E i \in {4, TipIndex(target_finger)} : ~HasKeys(At(landmarks, i), XY)
    THEN [raised |-> TRUE, touch |-> FALSE]
    ELSE LET palm == palm_size(landmarks)
             d == dist2(At(landmarks, 4),
                        At(landmarks, TipIndex(target_finger))) * 1000
         IN [raised |-> FALSE, touch |-> d * 100 <= 22 * palm]

\* ThumbOppositionDetector.detect_released: a boolean, or an exception
detect_released(landmarks, target_finger) ==
    IF \/ Len(landmarks) >= 10
          /\ \E i \in {0, 9} : ~HasKeys(At(landmarks, i), XY)
       \/ ~HasIndex(landmarks, 4)
       \/ ~HasIndex(landmarks, TipIndex(target_finger))
    THEN [raised |-> TRUE, touch |-> FALSE]
    ELSE IF \E i \in {4, TipIndex(target_finger)} : ~HasKeys(At(landmarks, i), XY)
    THEN [raised |-> TRUE, touch |-> FALSE]
    ELSE LET palm == palm_size(landmarks)
             d == dist2(At(landmarks, 4),
                        At(landmarks, TipIndex(target_finger))) * 1000
         IN [raised |-> FALSE, touch |-> d * 100 >= 28 * palm]

\* ThumbOppositionDetector.detect_state
ThumbDetect(landmarks) ==
    IF Len(landmarks) = 0 \/ Len(landmarks) < 21
    THEN Returns("UNKNOWN")
    ELSE Returns("TRACKING")

\* the probing loop of analyze: the first finger of the sequence the thumb
\* touches, "" for None; a probe that raises counts as no touch
RECURSIVE Touched(_, _)
Touched(landmarks, k) ==
    IF k > Len(FingerSequence) THEN ""
    ELSE LET probe == detect_touch_target(landmarks, FingerSequence[k])
         IN IF ~probe.raised /\ probe.touch
            THEN FingerSequence[k]
            ELSE Touched(landmarks, k + 1)

\* a label that names whichever finger is touched
ThumbLabelOfAnyTouch(landmarks, expected) ==
    LET touched == Touched(landmarks, 1)
    IN IF touched = "" THEN "RELEASE" ELSE "TOUCH_" \o touched

\* the label analyze composes for thumb_opposition
ThumbLabel(landmarks, expected) ==
    LET touched == Touched(landmarks, 1)
    IN IF touched = expected THEN "TOUCH_" \o touched
       ELSE IF touched = "" THEN "RELEASE"
       ELSE "TRANSITION"

\* detector.detect_state of the detector that serves the exercise type
detect_state(exercise_type, landmarks) ==
    CASE exercise_type = "open_close" -> OpenCloseDetect(landmarks)
      [] exercise_type = "pinch" -> PinchDetect(landmarks)
      [] exercise_type = "abduction_adduction" -> AbductionDetect(landmarks)
      [] exercise_type = "finger_lifts" -> FingerLiftsDetect(landmarks)
      [] exercise_type = "thumb_opposition" -> ThumbDetect(landmarks)

----------------------------------------------------------------------------
(* The frames the clients send *)

P(x, y, z) == [x |-> x, y |-> y, z |-> z]

\* 21 points: wrist, middle-finger base, the five tips and the four pips set,
\* every other point at the middle of the palm
HandFrame(thumb, index, middle, ring, pinky, pip_y) ==
    [i \in 1..21 |->
        CASE i - 1 = 0 -> P(500, 900, 0)
          [] i - 1 = 9 -> P(500, 700, 0)
          [] i - 1 = 4 -> thumb
          [] i - 1 = 8 -> index
          [] i - 1 = 12 -> middle
          [] i - 1 = 16 -> ring
          [] i - 1 = 20 -> pinky
          [] i - 1 \in {6, 10, 14, 18} -> P(500, pip_y, 0)
          [] OTHER -> P(500, 800, 0)]

OpenHand ==
    HandFrame(P(250, 750, 0), P(350, 500, 0), P(450, 480, 0),
              P(550, 480, 0), P(650, 500, 0), 650)
Fist ==
    HandFrame(P(490, 800, 0), P(485, 800, 0), P(495, 800, 0),
              P(505, 800, 0), P(515, 800, 0), 790)
HalfOpen ==
    HandFrame(P(400, 750, 0), P(410, 710, 0), P(470, 700, 0),
              P(530, 700, 0), P(590, 710, 0), 709)
FlatHand ==
    HandFrame(P(250, 750, 0), P(350, 650, 0), P(450, 650, 0),
              P(550, 650, 0), P(650, 650, 0), 650)
IndexUp ==
    HandFrame(P(250, 750, 0), P(350, 600, 0), P(450, 650, 0),
              P(550, 650, 0), P(650, 650, 0), 650)
ThumbOnIndex == [OpenHand EXCEPT ![5] = OpenHand[9]]
ThumbOnMiddle == [OpenHand EXCEPT ![5] = OpenHand[13]]
ThumbOnRing == [OpenHand EXCEPT ![5] = OpenHand[17]]
ThumbOnPinky == [OpenHand EXCEPT ![5] = OpenHand[21]]
\* fewer than 21 points
ShortFrame == SubSeq(OpenHand, 1, 5)
\* no points at all
EmptyFrame == <<>>
\* the thumb tip on the index tip and the middle tip at once
ThumbOnIndexAndMiddle == [OpenHand EXCEPT ![5] = OpenHand[9], ![13] = OpenHand[9]]
\* the thumb tip a quarter of a palm size from the index tip
ThumbNearIndex == [OpenHand EXCEPT ![5] = P(300, 500, 0)]
\* 21 points, one of them without a coordinate: the index tip without z or
\* without y, the wrist without x
MissingZ == [OpenHand EXCEPT ![9] = [x |-> 350, y |-> 500]]
MissingY == [OpenHand EXCEPT ![9] = [x |-> 350, z |-> 0]]
MissingX == [OpenHand EXCEPT ![1] = [y |-> 900, z |-> 0]]

\* the wrist and the base of the middle finger at the same place
CoincidentPalm == [OpenHand EXCEPT ![10] = OpenHand[1]]
\* 9 and 20 points
NinePoints == SubSeq(OpenHand, 1, 9)
TwentyPoints == SubSeq(OpenHand, 1, 20)

Frames ==
    {OpenHand, Fist, HalfOpen, FlatHand, IndexUp, ThumbOnIndex, ThumbOnMiddle,
     ThumbOnRing, ThumbOnPinky, ThumbOnIndexAndMiddle, ShortFrame, EmptyFrame,
     MissingZ, MissingY, MissingX, ThumbNearIndex}

\* The detectors' results on Frames, computed once
DetectedOnFrames ==
    [e \in {"open_close", "pinch", "abduction_adduction", "finger_lifts"} |->
        [f \in Frames |-> detect_state(e, f)]]

ThumbLabelOnFrames ==
    [f \in Frames |->
        [k \in 1..Len(FingerSequence) |-> ThumbLabel(f, FingerSequence[k])]]

----------------------------------------------------------------------------
(* Observers: what the last calls were, kept beside the program's state *)

NoCall ==
    [op |-> "none", session |-> 0, exercise_type |-> "", new_state |-> "",
     raised |-> "", status |-> 0, called_update |-> FALSE,
     changed |-> FALSE, repetitions |-> 0,
     target_finger |-> "", landmarks |-> <<>>, threw |-> FALSE,
     label |-> "", verdict |-> FALSE, size |-> 0]

\* how many calls hist keeps: three for finger_lifts, whose counting rule is
\* stated on sequences of three labels, two for the others
HistDepth(exercise_type) == IF exercise_type = "finger_lifts" THEN 3 ELSE 2

\* hist[e] after one more update_state call on e: the newest calls
Remember(h, call, depth) ==
    IF Len(h) < depth THEN Append(h, call) ELSE Append(Tail(h), call)

HistAfterUpdate(exercise_type, new_state, before, r) ==
    IF exercise_type \in ExerciseTypes
    THEN [hist EXCEPT ![exercise_type] =
            Remember(@, [new_state |-> new_state, changed |-> r.changed,
                         before |-> before, after |-> r.repetitions],
                     HistDepth(exercise_type))]
    ELSE hist

HistAfterReset(exercise_type) ==
    IF exercise_type \in ExerciseTypes
    THEN [hist EXCEPT ![exercise_type] = <<>>]
    ELSE hist

\* the full thumb-opposition sequence
FullSequence ==
    <<"TOUCH_INDEX", "RELEASE", "TOUCH_MIDDLE", "RELEASE",
      "TOUCH_RING", "RELEASE", "TOUCH_PINKY", "RELEASE">>

\* A run of FullSequence starts at a record whose cursor reads INDEX and whose
\* is_touching reads false.
AtSequenceStart(exercise_state) ==
    /\ Get(exercise_state, "sequence_index", 0) = 0
    /\ ~Get(exercise_state, "is_touching", FALSE)

\* seq_progress after an update_state call on thumb_opposition: pos labels of
\* FullSequence have been submitted in a row, the first at count start.
ProgressAfterUpdate(exercise_type, new_state, S) ==
    IF exercise_type # "thumb_opposition" THEN seq_progress
    ELSE IF /\ seq_progress.pos \in 1..(Len(FullSequence) - 1)
            /\ new_state = FullSequence[seq_progress.pos + 1]
    THEN [seq_progress EXCEPT !.pos = @ + 1]
    ELSE IF new_state = FullSequence[1] /\ AtSequenceStart(S["thumb_opposition"])
    THEN [pos |-> 1, start |-> S["thumb_opposition"]["repetitions"]]
    ELSE [pos |-> 0, start |-> 0]

ProgressAfterReset(exercise_type) ==
    IF exercise_type = "thumb_opposition" THEN [pos |-> 0, start |-> 0]
    ELSE seq_progress

\* seen.closed[e]: a call that submitted CLOSED on the debounced exercise e
\* was accepted since the start, the last reset of e or the last count on e;
\* seen.touch: the finger of the last accepted TOUCH_ label of
\* thumb_opposition since the start or its last reset, as update_state reads
\* it from the label ("" for none); seen.released: a RELEASE or TRANSITION
\* was accepted since that touch; seen.touches: the number of TOUCH_ labels
\* of thumb_opposition accepted since the start or its last reset
NothingSeen ==
    [closed |-> [e \in DebouncedTypes |-> FALSE], touch |-> "", released |-> FALSE,
     touches |-> 0]

SeenAfterUpdate(exercise_type, new_state, before, r) ==
    IF exercise_type \in DebouncedTypes
    THEN [seen EXCEPT !.closed[exercise_type] =
            IF r.repetitions > before THEN FALSE
            ELSE IF r.changed /\ new_state = "CLOSED" THEN TRUE
            ELSE @]
    ELSE IF exercise_type = "thumb_opposition" /\ r.changed
    THEN IF startswith(new_state, "TOUCH_")
         THEN [seen EXCEPT !.touch = Head(replace_with_empty(new_state, "TOUCH_")),
                           !.released = FALSE,
                           !.touches = @ + 1]
         ELSE IF new_state \in {"RELEASE", "TRANSITION"}
         THEN [seen EXCEPT !.released = TRUE]
         ELSE seen
    ELSE seen

SeenAfterReset(exercise_type) ==
    IF exercise_type \in DebouncedTypes
    THEN [seen EXCEPT !.closed[exercise_type] = FALSE]
    ELSE IF exercise_type = "thumb_opposition"
    THEN [seen EXCEPT !.touch = "", !.released = FALSE, !.touches = 0]
    ELSE seen

\* calls.from: the record the calls found when the handlers were started;
\* calls.of[s]: the call of the handler of session s: where it is (pc), the
\* label it submits, its local variables and what it returned
Idle ==
    [pc |-> "idle", new_state |-> "", current_state |-> "",
     time_since_change |-> 0, changed |-> FALSE, repetitions |-> 0]

NoCalls(exercise_state) ==
    [from |-> exercise_state, of |-> [s \in Sessions |-> Idle]]

----------------------------------------------------------------------------
(* The state machine called directly *)

\* the values time.time() may return later in the same call
LaterClock == {t \in {now, now + TickMs} : t <= MaxTime}

Init ==
    /\ now = 0
    /\ states = InitialStates(0)
    /\ ret = NoCall
    /\ hist = [e \in ExerciseTypes |-> <<>>]
    /\ seq_progress = [pos |-> 0, start |-> 0]
    /\ seen = NothingSeen
    /\ driven \in ExerciseTypes
    /\ calls = NoCalls(InitialStates(0)[driven])

\* the clock advances
Tick ==
    /\ now + TickMs <= MaxTime
    /\ now' = now + TickMs
    /\ UNCHANGED <<states, ret, hist, seq_progress, seen, driven, calls>>

\* state_manager.update_state(exercise_type, new_state)
UpdateStateCall(exercise_type, new_state) ==
    \E t2 \in LaterClock :
        LET r == update_state(states, exercise_type, new_state, now, t2) IN
        /\ r.repetitions <= MaxReps
        /\ states' = r.states
        /\ now' = t2
        /\ ret' = [NoCall EXCEPT !.op = "update_state",
                                 !.exercise_type = exercise_type,
                                 !.new_state = new_state,
                                 !.raised = r.raised,
                                 !.called_update = TRUE,
                                 !.changed = r.changed,
                                 !.repetitions = r.repetitions]
        /\ hist' = HistAfterUpdate(exercise_type, new_state,
                                   get_repetitions(states, exercise_type), r)
        /\ seq_progress' = ProgressAfterUpdate(exercise_type, new_state, states)
        /\ seen' = SeenAfterUpdate(exercise_type, new_state,
                                   get_repetitions(states, exercise_type), r)
        /\ UNCHANGED <<driven, calls>>

\* state_manager.reset(exercise_type)
ResetCall(exercise_type) ==
    /\ states' = reset(states, exercise_type, now)
    /\ ret' = [NoCall EXCEPT !.op = "reset", !.exercise_type = exercise_type]
    /\ hist' = HistAfterReset(exercise_type)
    /\ seq_progress' = ProgressAfterReset(exercise_type)
    /\ seen' = SeenAfterReset(exercise_type)
    /\ UNCHANGED <<now, driven, calls>>

\* an exercise type outside the fixed enumeration
UnknownType == "wrist_roll"

\* the labels the client submits on an exercise type: those its classifier
\* returns, and others
LabelsFor(exercise_type) ==
    IF exercise_type = "thumb_opposition"
    THEN {"TOUCH_INDEX", "TOUCH_MIDDLE", "TOUCH_RING", "TOUCH_PINKY", "RELEASE",
          "TRANSITION", "TOUCH_TOUCH_INDEX", "OPEN"}
    ELSE IF exercise_type = "finger_lifts"
    THEN {"INDEX_UP", "MIDDLE_UP", "NONE", "TRANSITION", "TRANSITIONING",
          "UNKNOWN", "OPEN"}
    ELSE {"OPEN", "CLOSED", "SPREAD", "TRANSITION", "TRANSITIONING", "UNKNOWN"}

----------------------------------------------------------------------------
(* The request handlers of app.py.  Every session is a logged-in client; all *)
(* of them are served with the one module-level state_manager.  hist and    *)
(* seq_progress follow the direct calls of the state machine only: the      *)
(* handlers leave them alone.                                               *)

\* the exercise types analyze has a detector for
DetectorTypes ==
    {"open_close", "pinch", "abduction_adduction", "thumb_opposition", "finger_lifts"}

\* a chain that ends in a default detector instead of the error
DetectorOrDefault(exercise_type) ==
    IF exercise_type \in DetectorTypes THEN exercise_type ELSE "open_close"

\* the if/elif chain of analyze: the detector picked for the exercise type,
\* named by the type it serves, "" where the chain ends in the error
Detector(exercise_type) ==
    IF exercise_type \in DetectorTypes THEN exercise_type ELSE ""

\* the request body: no JSON at all, or the two fields ("" for an absent or
\* empty exercise_type)
NoData == [exercise_type |-> "", landmarks |-> <<>>, empty |-> TRUE]
Body(exercise_type, landmarks) ==
    [exercise_type |-> exercise_type, landmarks |-> landmarks, empty |-> FALSE]

\* (data.get('exercise_type') or 'open_close').strip(); the types the model
\* sends carry no surrounding white space
RequestedType(data) ==
    IF data.exercise_type = "" THEN "open_close" ELSE data.exercise_type

\* a response of analyze that leaves the state machine alone
ErrorResponse(S, exercise_type, status) ==
    [states |-> S, status |-> status, exercise_type |-> exercise_type,
     state |-> "", called_update |-> FALSE, state_changed |-> FALSE,
     repetitions |-> 0]

\* the response after update_state was called with the label current_state;
\* its ValueError is caught beside the call and answered with 400
UpdateResponse(exercise_type, current_state, u) ==
    IF u.raised = "ValueError"
    THEN [states |-> u.states, status |-> 400, exercise_type |-> exercise_type,
          state |-> current_state, called_update |-> TRUE,
          state_changed |-> FALSE, repetitions |-> 0]
    ELSE [states |-> u.states, status |-> 200, exercise_type |-> exercise_type,
          state |-> current_state, called_update |-> TRUE,
          state_changed |-> u.changed, repetitions |-> u.repetitions]

\* analyze: S is state_manager.states, t1 and t2 the clock as in update_state
analyze(S, data, t1, t2) ==
    IF data.empty
    THEN ErrorResponse(S, "", 400)
    ELSE LET landmarks == data.landmarks
             exercise_type == RequestedType(data)
         IN
         IF Len(landmarks) = 0
         THEN ErrorResponse(S, exercise_type, 400)
         ELSE IF Detector(exercise_type) = ""
         THEN ErrorResponse(S, exercise_type, 400)
         ELSE IF exercise_type = "thumb_opposition"
         THEN LET expected == ExpectedFinger(S["thumb_opposition"])
                  current_state ==
                      IF landmarks \in Frames
                      THEN ThumbLabelOnFrames[landmarks][
                               Get(S["thumb_opposition"], "sequence_index", 0) + 1]
                      ELSE ThumbLabel(landmarks, expected)
              IN UpdateResponse(exercise_type, current_state,
                    update_state(S, exercise_type, current_state, t1, t2))
         ELSE LET detected ==
                      IF landmarks \in Frames
                      THEN DetectedOnFrames[Detector(exercise_type)][landmarks]
                      ELSE detect_state(Detector(exercise_type), landmarks)
              IN IF detected.raised
                 THEN ErrorResponse(S, exercise_type, 500)
                 ELSE UpdateResponse(exercise_type, detected.label,
                        update_state(S, exercise_type, detected.label, t1, t2))

\* POST /analyze from session s
Analyze(s, data) ==
    \E t2 \in LaterClock :
        LET a == analyze(states, data, now, t2)
        IN
        /\ a.repetitions <= MaxReps
        /\ states' = a.states
        /\ now' = t2
        /\ ret' = [NoCall EXCEPT !.op = "analyze",
                                 !.session = s,
                                 !.exercise_type = a.exercise_type,
                                 !.new_state = a.state,
                                 !.status = a.status,
                                 !.called_update = a.called_update,
                                 !.changed = a.state_changed,
                                 !.repetitions = a.repetitions]
        /\ UNCHANGED <<hist, seq_progress, seen, driven, calls>>

\* data.get('exercise_type', 'open_close') of the reset route
ResetType(exercise_type) ==
    IF exercise_type = "" THEN "open_close" ELSE exercise_type

\* POST /reset from session s
ResetRoute(s, exercise_type) ==
    /\ states' = reset(states, ResetType(exercise_type), now)
    /\ ret' = [NoCall EXCEPT !.op = "reset_route", !.session = s,
                             !.exercise_type = ResetType(exercise_type),
                             !.status = 200]
    /\ UNCHANGED <<now, hist, seq_progress, seen, driven, calls>>

\* the frames a client sends while it does an exercise: one for each label
\* of the exercise's detector, a truncated one and an empty one
FramesFor(exercise_type) ==
    IF exercise_type = "thumb_opposition"
    THEN {ThumbOnIndex, ThumbOnMiddle, ThumbOnRing, ThumbOnPinky,
          ThumbOnIndexAndMiddle, ThumbNearIndex, OpenHand, ShortFrame,
          EmptyFrame}
    ELSE IF exercise_type = "finger_lifts"
    THEN {IndexUp, OpenHand, FlatHand, HalfOpen, ShortFrame, EmptyFrame}
    ELSE {OpenHand, Fist, HalfOpen, ShortFrame, EmptyFrame}

\* the requests of a run: on the exercise type the client has open, and on
\* one the backend does not know
NextApp ==
    \/ Tick
    \/ \E s \in Sessions, f \in FramesFor(driven) : Analyze(s, Body(driven, f))
    \/ \E s \in Sessions, f \in {OpenHand, EmptyFrame} :
            Analyze(s, Body(UnknownType, f))
    \/ \E s \in Sessions : Analyze(s, NoData)
    \/ \E s \in Sessions : ResetRoute(s, driven)
    \/ \E l \in {"OPEN", "CLOSED"} : UpdateStateCall(UnknownType, l)

SpecApp == Init /\ [][NextApp]_vars

Next ==
    \/ Tick
    \/ \E l \in LabelsFor(driven) : UpdateStateCall(driven, l)
    \/ ResetCall(driven)

Spec == Init /\ [][Next]_vars

----------------------------------------------------------------------------
(* The detectors called directly, on frames of a grid of hand positions and *)
(* on the short and malformed frames.  A detector keeps nothing from one    *)
(* call to the next, so a run makes one call.                               *)

GridFrames ==
    {HandFrame(P(tx, 750, 0), P(350, iy, 0), P(450, my, 0),
               P(550, 650, 0), P(px, 650, 0), pip) :
        tx \in {250, 350, 440}, iy \in {500, 640, 650}, my \in {480, 650},
        px \in {560, 650}, pip \in {650, 790}}

DetectFrames ==
    Frames \cup GridFrames \cup {CoincidentPalm, NinePoints, TwentyPoints}

\* ret after a call of a detector method: that it raised, or what it
\* returned (a label, a boolean verdict or a size)
DetectorCall(op, exercise_type, target_finger, landmarks, threw) ==
    [NoCall EXCEPT !.op = op, !.exercise_type = exercise_type,
                   !.target_finger = target_finger, !.landmarks = landmarks,
                   !.threw = threw]

\* detector.detect_state(landmarks) of the detector of exercise_type
DetectStateCall(exercise_type, landmarks) ==
    LET r == detect_state(exercise_type, landmarks) IN
    /\ ret = NoCall
    /\ ret' = [DetectorCall("detect_state", exercise_type, "", landmarks,
                            r.raised) EXCEPT !.label = r.label]
    /\ UNCHANGED <<states, now, hist, seq_progress, seen, driven, calls>>

\* ThumbOppositionDetector.detect_touch_target(landmarks, target_finger)
DetectTouchCall(landmarks, target_finger) ==
    LET r == detect_touch_target(landmarks, target_finger) IN
    /\ ret = NoCall
    /\ ret' = [DetectorCall("detect_touch_target", "thumb_opposition",
                            target_finger, landmarks, r.raised)
                  EXCEPT !.verdict = r.touch]
    /\ UNCHANGED <<states, now, hist, seq_progress, seen, driven, calls>>

\* ThumbOppositionDetector.detect_released(landmarks, target_finger)
DetectReleasedCall(landmarks, target_finger) ==
    LET r == detect_released(landmarks, target_finger) IN
    /\ ret = NoCall
    /\ ret' = [DetectorCall("detect_released", "thumb_opposition",
                            target_finger, landmarks, r.raised)
                  EXCEPT !.verdict = r.touch]
    /\ UNCHANGED <<states, now, hist, seq_progress, seen, driven, calls>>

\* detector._palm_size(landmarks), the same in the three detectors that
\* have it
PalmSizeCall(landmarks) ==
    /\ ret = NoCall
    /\ ret' = [DetectorCall("_palm_size", "", "", landmarks,
                            palm_size_raises(landmarks))
                  EXCEPT !.size = IF palm_size_raises(landmarks) THEN 0
                                  ELSE palm_size(landmarks)]
    /\ UNCHANGED <<states, now, hist, seq_progress, seen, driven, calls>>

NextDetect ==
    \/ \E e \in DetectorTypes, f \in DetectFrames : DetectStateCall(e, f)
    \/ \E f \in DetectFrames, k \in 1..Len(FingerSequence) :
            DetectTouchCall(f, FingerSequence[k])
    \/ \E f \in DetectFrames, k \in 1..Len(FingerSequence) :
            DetectReleasedCall(f, FingerSequence[k])
    \/ \E f \in DetectFrames : PalmSizeCall(f)

SpecDetect == Init /\ [][NextDetect]_vars

----------------------------------------------------------------------------
(* Properties *)

\* the newest call hist remembers
Last(h) == h[Len(h)]

\* the label is one update_state ignores as a transition
IsTransition(l) == Normalize(l) = "TRANSITION"

\* this step is the call update_state(e, l)
Called(e, l) ==
    /\ ret'.op = "update_state"
    /\ ret'.exercise_type = e
    /\ ret'.new_state = l
    /\ UpdateStateCall(e, l)

\* this step is the call reset(e)
WasReset(e) ==
    /\ ret'.op = "reset"
    /\ ret'.exercise_type = e
    /\ ResetCall(e)

\* C1: between two resets the repetition count of an exercise never
\* decreases: every step that is not a reset of the exercise leaves its
\* count the same or larger, for every exercise type, label and call time.
C1_CountNeverDecreases ==
    [][\A e \in ExerciseTypes :
        ~WasReset(e) =>
            states'[e]["repetitions"] >= states[e]["repetitions"]]_vars

\* C1 witness: a count has grown to 2 and a later call on the same exercise
\* left it there.
C1_Witness ==
    \E e \in ExerciseTypes :
        /\ Len(hist[e]) >= 2
        /\ Last(hist[e]).before = 2
        /\ Last(hist[e]).after = 2
        /\ states[e]["repetitions"] = 2

\* C2: for open_close and pinch, an OPEN label accepted while the current
\* label is CLOSED (which needs 200 ms since the last accepted change)
\* increases the count by exactly 1, and a CLOSED label accepted while the
\* current label is OPEN leaves the count as it was.
C2_ClosedToOpenCounts ==
    [][\A e \in {"open_close", "pinch"} :
        /\ ( /\ Called(e, "OPEN")
             /\ states[e]["current_state"] = "CLOSED"
             /\ ret'.changed )
           => /\ now - states[e]["last_state_change"] >= MIN_STATE_DURATION
              /\ states'[e]["repetitions"] = states[e]["repetitions"] + 1
              /\ ret'.repetitions = states[e]["repetitions"] + 1
        /\ ( /\ Called(e, "CLOSED")
             /\ states[e]["current_state"] = "OPEN"
             /\ ret'.changed )
           => /\ states'[e]["repetitions"] = states[e]["repetitions"]
              /\ ret'.repetitions = states[e]["repetitions"] ]_vars

\* C2 witness: pinch went OPEN -> CLOSED without counting, then CLOSED -> OPEN
\* and counted one.
C2_Witness ==
    /\ Len(hist["pinch"]) >= 2
    /\ hist["pinch"][Len(hist["pinch"]) - 1] =
         [new_state |-> "CLOSED", changed |-> TRUE, before |-> 0, after |-> 0]
    /\ Last(hist["pinch"]) =
         [new_state |-> "OPEN", changed |-> TRUE, before |-> 0, after |-> 1]
    /\ states["pinch"]["previous_state"] = "CLOSED"

\* C3: for open_close, pinch and abduction_adduction, a label that is no
\* transition label and differs from the current label is dropped when it
\* arrives less than 200 ms after the last accepted change (changed=false, the
\* record with its count, labels and timestamp unchanged) and accepted when it
\* arrives 200 ms or more after it; so the label dropped in the previous call
\* is accepted when submitted again once 200 ms have passed since the last
\* accepted change: the dropped call has not restarted the hold timer.
C3_DebounceDropsThenAccepts ==
    [][\A e \in DebouncedTypes : \A l \in LabelsFor(e) :
        ( /\ Called(e, l)
          /\ ~IsTransition(l)
          /\ l # states[e]["current_state"] )
        => /\ now - states[e]["last_state_change"] < MIN_STATE_DURATION
              => /\ ~ret'.changed
                 /\ ret'.repetitions = states[e]["repetitions"]
                 /\ states'[e] = states[e]
           /\ now - states[e]["last_state_change"] >= MIN_STATE_DURATION
              => /\ ret'.changed
                 /\ states'[e]["current_state"] = l
                 /\ states'[e]["previous_state"] = states[e]["current_state"]
           /\ ( /\ Len(hist[e]) > 0
                /\ Last(hist[e]).new_state = l
                /\ ~Last(hist[e]).changed
                /\ now - states[e]["last_state_change"] >= MIN_STATE_DURATION )
              => ret'.changed ]_vars

\* C3 witness: abduction_adduction dropped SPREAD, then accepted the same label
\* in the next call.
C3_Witness ==
    /\ Len(hist["abduction_adduction"]) = 2
    /\ hist["abduction_adduction"][1] =
         [new_state |-> "SPREAD", changed |-> FALSE, before |-> 0, after |-> 0]
    /\ hist["abduction_adduction"][2] =
         [new_state |-> "SPREAD", changed |-> TRUE, before |-> 0, after |-> 1]

\* the label names a raised finger
IsUp(l) == endswith(l, "_UP")

\* C4: for finger_lifts, <X>_UP then NONE increases the count by exactly 1,
\* and <X>_UP, <Y>_UP (another finger), NONE increases it by exactly 1 in
\* total; a call changes the count only when it goes from a label ending in
\* _UP to NONE, and then by 1; an _UP label submitted while the current label
\* ends in _UP never counts.
C4_FingerLiftCounting ==
    [][LET h == hist'["finger_lifts"]
           n == Len(h)
           f == "finger_lifts"
       IN
       /\ ( /\ n >= 2
            /\ IsUp(h[n - 1].new_state)
            /\ h[n].new_state = "NONE" )
          => h[n].after = h[n - 1].before + 1
       /\ ( /\ n = 3
            /\ IsUp(h[1].new_state)
            /\ IsUp(h[2].new_state)
            /\ h[1].new_state # h[2].new_state
            /\ h[3].new_state = "NONE" )
          => /\ h[2].after = h[1].before
             /\ h[3].after = h[1].before + 1
       /\ \A l \in LabelsFor(f) :
            Called(f, l) =>
              /\ states'[f]["repetitions"] # states[f]["repetitions"]
                 => /\ l = "NONE"
                    /\ IsUp(states[f]["current_state"])
                    /\ states'[f]["repetitions"] = states[f]["repetitions"] + 1
              /\ (IsUp(l) /\ IsUp(states[f]["current_state"]))
                 => states'[f]["repetitions"] = states[f]["repetitions"] ]_vars

\* C4 witness: INDEX_UP, MIDDLE_UP, NONE were submitted in a row, both _UP
\* labels were accepted, and the count went from 0 to 1.
C4_Witness ==
    /\ Len(hist["finger_lifts"]) = 3
    /\ hist["finger_lifts"][1] =
         [new_state |-> "INDEX_UP", changed |-> TRUE, before |-> 0, after |-> 0]
    /\ hist["finger_lifts"][2] =
         [new_state |-> "MIDDLE_UP", changed |-> TRUE, before |-> 0, after |-> 0]
    /\ hist["finger_lifts"][3] =
         [new_state |-> "NONE", changed |-> TRUE, before |-> 0, after |-> 1]

\* C5: for thumb_opposition, when the eight labels TOUCH_INDEX, RELEASE,
\* TOUCH_MIDDLE, RELEASE, TOUCH_RING, RELEASE, TOUCH_PINKY, RELEASE have been
\* submitted in a row starting where the cursor reads INDEX and is_touching
\* reads false, the count is exactly 1 more than at the start, the cursor
\* is back at INDEX and is_touching is false.
C5_FullSequenceCountsOne ==
    seq_progress.pos = Len(FullSequence) =>
        /\ states["thumb_opposition"]["repetitions"] = seq_progress.start + 1
        /\ Get(states["thumb_opposition"], "sequence_index", 0) = 0
        /\ ExpectedFinger(states["thumb_opposition"]) = "INDEX"
        /\ ~Get(states["thumb_opposition"], "is_touching", FALSE)

\* C5 witness: the full sequence has been submitted, the second time round
\* (it started at count 1).
C5_Witness ==
    /\ seq_progress.pos = Len(FullSequence)
    /\ seq_progress.start = 1
    /\ states["thumb_opposition"]["current_state"] = "RELEASE"

\* the <finger> of a label TOUCH_<finger>: what follows the prefix
FingerOf(l) == Tail(Tokens[l])

C7_ResetYieldsDefault ==
    (ret.op = "reset" /\ ret.exercise_type \in ExerciseTypes) =>
        LET e == ret.exercise_type
            exercise_state == states[e]
        IN /\ exercise_state["repetitions"] = 0
           /\ get_repetitions(states, e) = 0
           /\ e # "thumb_opposition" =>
                /\ exercise_state["current_state"] = "OPEN"
                /\ get_current_state(states, e) = "OPEN"
           /\ e = "thumb_opposition" =>
                /\ ExpectedFinger(exercise_state) = "INDEX"
                /\ ~Get(exercise_state, "is_touching", FALSE)
                /\ \A i \in 1..4 :
                     LET l == <<"TOUCH_INDEX", "TOUCH_MIDDLE",
                                "TOUCH_RING", "TOUCH_PINKY">>[i]
                     IN UpdateRecord(e, exercise_state, l, now, now).changed
                          <=> l = "TOUCH_INDEX"

\* C7 witness: thumb_opposition has been reset; its record no longer holds
\* the cursor and is_touching keys, which read as their defaults.
C7_Witness ==
    /\ ret.op = "reset"
    /\ ret.exercise_type = "thumb_opposition"
    /\ "sequence_index" \notin DOMAIN states["thumb_opposition"]
    /\ now > 0

\* C8 as stated: a call whose label equals the current label never increments
\* the count, and when the same label is submitted in two consecutive calls
\* the second reports changed=false and does not increment the count.
C8_SameLabelTwice ==
    [][\A e \in ExerciseTypes : \A l \in LabelsFor(e) :
        Called(e, l) =>
          /\ l = states[e]["current_state"]
             => states'[e]["repetitions"] = states[e]["repetitions"]
          /\ (Len(hist[e]) > 0 /\ Last(hist[e]).new_state = l)
             => /\ ~ret'.changed
                /\ states'[e]["repetitions"] = states[e]["repetitions"] ]_vars

\* the previous call on e submitted l and the debounce dropped it: e is a
\* debounced exercise, l no transition label and not the current label
DroppedByDebounce(e, l) ==
    /\ e \in DebouncedTypes
    /\ Len(hist[e]) > 0
    /\ Last(hist[e]).new_state = l
    /\ ~Last(hist[e]).changed
    /\ ~IsTransition(l)
    /\ l # states[e]["current_state"]

\* C8 as amended: a call whose label equals the current label never
\* increments the count; when the same label is submitted in two consecutive
\* calls, the second reports changed=false and does not increment the count,
\* unless the first was dropped by the debounce of open_close, pinch or
\* abduction_adduction: then the second is accepted exactly when 200 ms have
\* passed since the last accepted change (and counts if it closes the cycle).
C8_SameLabelTwiceUnlessDropped ==
    [][\A e \in ExerciseTypes : \A l \in LabelsFor(e) :
        Called(e, l) =>
          /\ l = states[e]["current_state"]
             => states'[e]["repetitions"] = states[e]["repetitions"]
          /\ ( /\ Len(hist[e]) > 0
               /\ Last(hist[e]).new_state = l
               /\ ~DroppedByDebounce(e, l) )
             => /\ ~ret'.changed
                /\ states'[e]["repetitions"] = states[e]["repetitions"]
          /\ DroppedByDebounce(e, l)
             => ret'.changed <=>
                  now - states[e]["last_state_change"] >= MIN_STATE_DURATION ]_vars

\* C8 witness: open_close at CLOSED was sent OPEN twice in a row; the first
\* call was dropped, the second accepted and counted.
C8_Witness ==
    /\ Len(hist["open_close"]) = 2
    /\ hist["open_close"][1] =
         [new_state |-> "OPEN", changed |-> FALSE, before |-> 0, after |-> 0]
    /\ hist["open_close"][2] =
         [new_state |-> "OPEN", changed |-> TRUE, before |-> 0, after |-> 1]

----------------------------------------------------------------------------
(* The request handlers *)

\* this step is the request POST /analyze of session s with the body data
Requested(s, data) ==
    /\ ret'.op = "analyze"
    /\ ret'.session = s
    /\ ret'.exercise_type = (IF data.empty THEN "" ELSE RequestedType(data))
    /\ Analyze(s, data)

\* this step is a request of session s, POST /analyze or POST /reset
ServedFor(s) ==
    /\ ret'.op \in {"analyze", "reset_route"}
    /\ ret'.session = s
    /\ \/ ResetRoute(s, driven)
       \/ \E e \in {driven, UnknownType}, f \in Frames : Analyze(s, Body(e, f))
       \/ Analyze(s, NoData)

\* C9: an exercise type outside the fixed enumeration is rejected with an
\* error.  update_state raises the unknown-exercise-type error (ValueError);
\* analyze answers with an error response (status 400) without calling
\* update_state; in both cases every exercise record (label, count,
\* timestamp, cursor, is_touching) is left as it was.
C9_UnknownTypeRejected ==
    [][/\ \A l \in Labels :
            Called(UnknownType, l) =>
                /\ ret'.raised = "ValueError"
                /\ states' = states
       /\ \A s \in Sessions, f \in Frames :
            (Len(f) > 0 /\ Requested(s, Body(UnknownType, f))) =>
                /\ ret'.status = 400
                /\ ~ret'.called_update
                /\ states' = states]_vars

\* C9 witness: repetitions have been counted and an exercise is away from
\* its initial label when analyze answers a request for the unknown type
\* with the error.
C9_Witness ==
    /\ ret.op = "analyze"
    /\ ret.exercise_type = UnknownType
    /\ ret.status = 400
    /\ ~ret.called_update
    /\ states[driven]["repetitions"] >= 1
    /\ states # InitialStates(0)

\* what session s is shown of exercise type e: the label, the count and the
\* cursor of the state_manager that serves the session
Observed(s, e) ==
    [state |-> get_current_state(states, e),
     repetitions |-> get_repetitions(states, e),
     sequence_index |-> Get(states[e], "sequence_index", 0)]

\* C10: exercise state is isolated per client session: an analyze or reset
\* request of one session never changes the label, the repetition count or
\* the cursor that a different session observes for the same exercise type.
C10_SessionsIsolated ==
    [][\A s, other \in Sessions :
        (s # other /\ ServedFor(other)) =>
            \A e \in ExerciseTypes : Observed(s, e)' = Observed(s, e)]_vars

\* frames with fewer than 21 points, or with a point that lacks a coordinate
BadFrames == {ShortFrame, MissingZ, MissingY, MissingX}

\* the frames of an exercise that are not bad: 21 points with x, y and z
GoodFramesFor(exercise_type) ==
    {f \in FramesFor(exercise_type) :
        Len(f) = 21 /\ \A i \in 1..21 : HasKeys(f[i], XYZ)}

\* the clock at the request that follows
Later == {now, now + TickMs, now + 2 * TickMs}

\* C11: a bad frame (fewer than 21 points, or malformed points) affects at
\* most one update call: from every reachable state, the status, changed
\* flag and repetition count analyze returns for a good frame that follows a
\* bad frame are those it returns for that frame when the bad frame was never
\* submitted.
C11_BadFrameNoLastingEffect ==
    \A bad \in BadFrames, f \in GoodFramesFor(driven), t \in Later :
        LET skipped == analyze(states, Body(driven, f), t, t)
            first   == analyze(states, Body(driven, bad), now, now)
            second  == analyze(first.states, Body(driven, f), t, t)
        IN /\ second.status = skipped.status
           /\ second.state_changed = skipped.state_changed
           /\ second.repetitions = skipped.repetitions

----------------------------------------------------------------------------
(* The detectors *)

\* a valid frame: 21 points, each with x, y and z
ValidFrame(landmarks) ==
    /\ Len(landmarks) = 21
    /\ \A i \in 1..21 : HasKeys(landmarks[i], XYZ)

\* the labels documented for the classifier of an exercise
DocumentedLabels(exercise_type) ==
    CASE exercise_type \in {"open_close", "pinch"} ->
            {"OPEN", "CLOSED", "TRANSITION"}
      [] exercise_type = "abduction_adduction" ->
            {"SPREAD", "CLOSED", "TRANSITIONING"}
      [] exercise_type = "finger_lifts" ->
            {"INDEX_UP", "MIDDLE_UP", "RING_UP", "PINKY_UP", "NONE", "TRANSITION"}

\* C12: each of the five classifiers returns, for every valid 21-point
\* frame, exactly one label of the closed set documented for its exercise
\* (for thumb_opposition: a touch or release verdict per target finger), and
\* for every frame with fewer than 21 points returns without throwing.
C12_ClassifiersTotal ==
    /\ (ret.op = "detect_state" /\ ret.exercise_type # "thumb_opposition") =>
         /\ ValidFrame(ret.landmarks) =>
              /\ ~ret.threw
              /\ ret.label \in DocumentedLabels(ret.exercise_type)
         /\ Len(ret.landmarks) < 21 => ~ret.threw
    /\ ret.op \in {"detect_touch_target", "detect_released"} =>
         /\ ValidFrame(ret.landmarks) =>
              /\ ~ret.threw
              /\ ret.verdict \in BOOLEAN
         /\ Len(ret.landmarks) < 21 => ~ret.threw

\* the label a classifier returns for a frame it cannot read
Fallback(exercise_type) ==
    IF exercise_type \in {"open_close", "pinch"} THEN "TRANSITION" ELSE "UNKNOWN"

\* the frame has 21 elements and some point lacks x, y or z
MissingField(landmarks) ==
    /\ Len(landmarks) = 21
    /\ \E i \in 1..21 : ~HasKeys(landmarks[i], XYZ)

\* C13: for every classifier, a 21-element frame in which some point lacks
\* a coordinate field does not make detect_state throw: the classifier
\* returns normally, and the label is its fallback label when the point is
\* one it reads.
C13_MissingFieldNeverThrows ==
    (ret.op = "detect_state" /\ MissingField(ret.landmarks)) =>
        /\ ~ret.threw
        /\ ret.label \in
             IF ret.exercise_type = "thumb_opposition"
             THEN {"TRACKING", "UNKNOWN"}
             ELSE DocumentedLabels(ret.exercise_type)
                    \cup {Fallback(ret.exercise_type)}

\* C14 as stated: _palm_size never returns a value less than or equal to
\* 1e-6 (1 here), whatever the frame.
C14_PalmSizeAboveFloor ==
    (ret.op = "_palm_size" /\ ~ret.threw) => ret.size > 1

\* C14 as amended: _palm_size never returns a value less than 1e-6; it
\* returns exactly 1e-6 when the points 0 and 9 coincide, and 1.0 for a
\* frame with fewer than 10 points.
C14_PalmSizeAtLeastFloor ==
    (ret.op = "_palm_size" /\ ~ret.threw) =>
        /\ ret.size >= 1
        /\ Len(ret.landmarks) < 10 => ret.size = 1000000
        /\ ( /\ Len(ret.landmarks) >= 10
             /\ At(ret.landmarks, 0)["x"] = At(ret.landmarks, 9)["x"]
             /\ At(ret.landmarks, 0)["y"] = At(ret.landmarks, 9)["y"] )
           => ret.size = 1

\* C14 witness: _palm_size was called on a frame whose wrist and
\* middle-finger base coincide and returned the floor.
C14_Witness ==
    /\ ret.op = "_palm_size"
    /\ ret.landmarks = CoincidentPalm
    /\ ~ret.threw
    /\ ret.size = 1

----------------------------------------------------------------------------
(* The state machine, continued *)

\* C15: for open_close, pinch and abduction_adduction an update with the
\* label TRANSITION or TRANSITIONING is always ignored, whatever the current
\* state and the elapsed time: it returns changed=false with the current
\* count and leaves the whole record (current and previous label, count,
\* last-change timestamp) as it was.
C15_TransitionIgnored ==
    [][\A e \in DebouncedTypes : \A l \in {"TRANSITION", "TRANSITIONING"} :
        Called(e, l) =>
            /\ ~ret'.changed
            /\ ret'.repetitions = states[e]["repetitions"]
            /\ states'[e] = states[e]]_vars

\* C15 witness: open_close sits at CLOSED, the hold time has passed, and the
\* last call submitted TRANSITIONING and was ignored.
C15_Witness ==
    /\ ret.op = "update_state"
    /\ ret.exercise_type = "open_close"
    /\ ret.new_state = "TRANSITIONING"
    /\ ~ret.changed
    /\ states["open_close"]["current_state"] = "CLOSED"
    /\ now - states["open_close"]["last_state_change"] >= MIN_STATE_DURATION

\* C16: for abduction_adduction an accepted transition increments the
\* repetition count (by 1) if and only if it goes from the current label
\* CLOSED to the new label SPREAD; every other accepted transition leaves the
\* count; each accepted transition writes previous label, current label and
\* timestamp.
C16_AbductionCountsClosedToSpread ==
    [][LET e == "abduction_adduction" IN
       \A l \in LabelsFor(e) :
         (Called(e, l) /\ ret'.changed) =>
           LET closes == states[e]["current_state"] = "CLOSED" /\ l = "SPREAD"
           IN /\ states'[e]["repetitions"] =
                   states[e]["repetitions"] + (IF closes THEN 1 ELSE 0)
              /\ ret'.repetitions = states'[e]["repetitions"]
              /\ states'[e]["previous_state"] = states[e]["current_state"]
              /\ states'[e]["current_state"] = l
              /\ states'[e]["last_state_change"] = now']_vars

\* C16 witness: CLOSED to SPREAD was accepted and counted, then SPREAD to
\* CLOSED was accepted and not counted.
C16_Witness ==
    /\ Len(hist["abduction_adduction"]) = 2
    /\ hist["abduction_adduction"][1] =
         [new_state |-> "SPREAD", changed |-> TRUE, before |-> 0, after |-> 1]
    /\ hist["abduction_adduction"][2] =
         [new_state |-> "CLOSED", changed |-> TRUE, before |-> 1, after |-> 1]
    /\ states["abduction_adduction"]["previous_state"] = "SPREAD"

\* C17: for open_close, pinch and abduction_adduction every increment of
\* the repetition count is preceded, since the previous increment, the last
\* reset or the start, by an update call that submitted the label CLOSED and
\* was accepted.
C17_CountNeedsClosedFirst ==
    [][\A e \in DebouncedTypes :
        states'[e]["repetitions"] > states[e]["repetitions"] =>
            seen.closed[e]]_vars

\* C18: for thumb_opposition a RELEASE or TRANSITION label is accepted
\* exactly when is_touching is true: it then sets is_touching to false,
\* reports changed=true and leaves the cursor and the count unchanged; when
\* is_touching is false it is rejected with changed=false and the record is
\* left as it was.
C18_ReleaseNeedsTouching ==
    [][LET t == "thumb_opposition" IN
       \A l \in {"RELEASE", "TRANSITION"} :
         Called(t, l) =>
           IF Get(states[t], "is_touching", FALSE)
           THEN /\ ret'.changed
                /\ ~Get(states'[t], "is_touching", FALSE)
                /\ Get(states'[t], "sequence_index", 0)
                     = Get(states[t], "sequence_index", 0)
                /\ states'[t]["repetitions"] = states[t]["repetitions"]
                /\ ret'.repetitions = states[t]["repetitions"]
           ELSE /\ ~ret'.changed
                /\ ret'.repetitions = states[t]["repetitions"]
                /\ states'[t] = states[t]]_vars

\* C18 witness: TOUCH_INDEX was accepted, then TRANSITION was accepted as
\* the release: is_touching is false again and the cursor stays at MIDDLE.
C18_Witness ==
    /\ Len(hist["thumb_opposition"]) = 2
    /\ hist["thumb_opposition"][1] =
         [new_state |-> "TOUCH_INDEX", changed |-> TRUE, before |-> 0, after |-> 0]
    /\ hist["thumb_opposition"][2] =
         [new_state |-> "TRANSITION", changed |-> TRUE, before |-> 0, after |-> 0]
    /\ states["thumb_opposition"]["sequence_index"] = 1
    /\ ~states["thumb_opposition"]["is_touching"]

\* the finger that follows in the cyclic order; INDEX opens it
NextInCycle(finger) ==
    CASE finger = "" -> "INDEX"
      [] finger = "INDEX" -> "MIDDLE"
      [] finger = "MIDDLE" -> "RING"
      [] finger = "RING" -> "PINKY"
      [] finger = "PINKY" -> "INDEX"

\* C19: for thumb_opposition, under any sequence of update calls, the
\* accepted touches occur strictly in the cyclic order INDEX, MIDDLE, RING,
\* PINKY, INDEX, ... since the start or the last reset, and between any two
\* consecutive accepted touches a RELEASE or TRANSITION was accepted.  (The
\* finger of an accepted touch is the one update_state reads from the label.)
C19_TouchesInCyclicOrder ==
    [][LET t == "thumb_opposition" IN
       \A l \in LabelsFor(t) :
         (startswith(l, "TOUCH_") /\ Called(t, l) /\ ret'.changed) =>
           /\ seen'.touch = NextInCycle(seen.touch)
           /\ seen.touch # "" => seen.released]_vars

\* C19 witness: a whole cycle was counted and INDEX has been touched again,
\* after the release that followed PINKY.
C19_Witness ==
    /\ seen.touch = "INDEX"
    /\ ~seen.released
    /\ states["thumb_opposition"]["repetitions"] = 1
    /\ Get(states["thumb_opposition"], "is_touching", FALSE)
    /\ Get(states["thumb_opposition"], "sequence_index", 0) = 1

----------------------------------------------------------------------------
(* The request handlers, continued *)

\* the positions in INDEX, MIDDLE, RING, PINKY of the fingers whose probe
\* returns true on the frame
TouchedPositions(landmarks) ==
    {k \in 1..Len(FingerSequence) :
        LET probe == detect_touch_target(landmarks, FingerSequence[k])
        IN ~probe.raised /\ probe.touch}

\* the first of them in that order, "" for none
FirstTouched(landmarks) ==
    IF TouchedPositions(landmarks) = {} THEN ""
    ELSE FingerSequence[CHOOSE k \in TouchedPositions(landmarks) :
                            \A j \in TouchedPositions(landmarks) : k <= j]

\* the first touched finger of every frame a request can carry
FirstTouchedOnFrames == [f \in Frames |-> FirstTouched(f)]

\* C20: in analyze for thumb_opposition the label is composed from the first
\* finger, probing INDEX, MIDDLE, RING, PINKY in that order, that meets the
\* touch threshold: TOUCH_<finger> if that finger is the one the cursor
\* expects, TRANSITION if it is a different finger, RELEASE if no finger is
\* touched; a frame that touches a wrong finger never changes the sequence
\* cursor or the repetition count.
C20_ThumbLabelComposition ==
    [][LET t == "thumb_opposition" IN
       (ret'.op = "analyze" /\ ret'.exercise_type = t) =>
       \A s \in Sessions, f \in FramesFor(t) :
         (Len(f) > 0 /\ Requested(s, Body(t, f))) =>
           LET first == FirstTouchedOnFrames[f]
               expected == FingerSequence[Get(states[t], "sequence_index", 0) + 1]
           IN /\ ret'.called_update
              /\ ret'.new_state =
                   IF first = expected THEN "TOUCH_" \o first
                   ELSE IF first = "" THEN "RELEASE"
                   ELSE "TRANSITION"
              /\ first \notin {"", expected} =>
                   /\ Get(states'[t], "sequence_index", 0)
                        = Get(states[t], "sequence_index", 0)
                   /\ states'[t]["repetitions"] = states[t]["repetitions"]
                   /\ ret'.repetitions = states[t]["repetitions"]]_vars

\* C20 witness: with the cursor at RING and the thumb released, a frame
\* touching another finger was answered with TRANSITION and changed nothing.
C20_Witness ==
    /\ ret.op = "analyze"
    /\ ret.exercise_type = "thumb_opposition"
    /\ ret.new_state = "TRANSITION"
    /\ ~ret.changed
    /\ Get(states["thumb_opposition"], "sequence_index", 0) = 2
    /\ ~Get(states["thumb_opposition"], "is_touching", FALSE)

----------------------------------------------------------------------------
(* The state machine: finger_lifts and the debounce *)

\* C21: for finger_lifts there is no time debounce: TRANSITION and
\* TRANSITIONING are ignored outright, any other label different from the
\* current one is accepted however short the time since the last change, and
\* the update call that goes from an _UP label to NONE returns changed=true
\* together with the count already incremented.
C21_FingerLiftsNoDebounce ==
    [][LET f == "finger_lifts" IN
       \A l \in LabelsFor(f) :
         Called(f, l) =>
           LET current_state == states[f]["current_state"] IN
           IF IsTransition(l)
           THEN /\ ~ret'.changed
                /\ ret'.repetitions = states[f]["repetitions"]
                /\ states'[f] = states[f]
           ELSE /\ ret'.changed <=> l # current_state
                /\ l # current_state =>
                     /\ states'[f]["current_state"] = l
                     /\ states'[f]["last_state_change"] = now'
                /\ (IsUp(current_state) /\ l = "NONE") =>
                     /\ ret'.changed
                     /\ ret'.repetitions = states[f]["repetitions"] + 1
                     /\ states'[f]["repetitions"] = states[f]["repetitions"] + 1]_vars

\* C21 witness: INDEX_UP and then NONE were both accepted with the clock
\* still at the time the state machine was created, and the second call
\* returned the count 1.
C21_Witness ==
    /\ now = 0
    /\ Len(hist["finger_lifts"]) = 2
    /\ hist["finger_lifts"][1] =
         [new_state |-> "INDEX_UP", changed |-> TRUE, before |-> 0, after |-> 0]
    /\ hist["finger_lifts"][2] =
         [new_state |-> "NONE", changed |-> TRUE, before |-> 0, after |-> 1]
    /\ ret.changed /\ ret.repetitions = 1

\* the last call on e submitted a label that was seen in that one call only:
\* it is no transition label, it is not the label old that was current when
\* it came, and the call before it (if any) did not submit it
SeenOnceBefore(e, old) ==
    /\ Len(hist[e]) >= 1
    /\ ~IsTransition(Last(hist[e]).new_state)
    /\ Last(hist[e]).new_state # old
    /\ Len(hist[e]) >= 2 => hist[e][Len(hist[e]) - 1].new_state # Last(hist[e]).new_state
    /\ IF Last(hist[e]).changed
       THEN states[e]["previous_state"] = old
       ELSE states[e]["current_state"] = old

\* C22: the debounce of open_close, pinch and abduction_adduction suppresses
\* a state transition until the new label has been stable for the minimum
\* duration: a new label seen in a single call only, followed at once by the
\* old label, was not accepted as a state change and did not count a
\* repetition.
C22_SingleFrameLabelSuppressed ==
    [][\A e \in DebouncedTypes : \A old \in LabelsFor(e) :
        (Called(e, old) /\ SeenOnceBefore(e, old)) =>
            /\ ~Last(hist[e]).changed
            /\ Last(hist[e]).after = Last(hist[e]).before]_vars

----------------------------------------------------------------------------
(* Request handlers that run at the same time.  The server of app.py runs   *)
(* each request in a thread of its own, and all of them call update_state   *)
(* of the one state_manager, which takes no lock.  A call is modelled       *)
(* statement by statement; the interpreter may switch threads between any   *)
(* two statements.  The clock stands still while the calls run.             *)

\* the label as the branch of the exercise type reads it
Submitted(exercise_type, c) ==
    IF exercise_type = "thumb_opposition" THEN c.new_state
    ELSE Normalize(c.new_state)

\* the call moves on to the statement pc
Goto(c, pc) == [c EXCEPT !.pc = pc]

\* return changed, exercise_state['repetitions']
Returned(c, exercise_state, changed) ==
    [c EXCEPT !.pc = "done", !.changed = changed,
              !.repetitions = exercise_state["repetitions"]]

\* one statement of update_state, run by the call c on the record
\* exercise_state at the clock t: the call and the record afterwards
StepOf(exercise_type, c, exercise_state, t) ==
    LET new_state == Submitted(exercise_type, c)
        Stays(call) == [call |-> call, record |-> exercise_state]
        Writes(pc, record) == [call |-> Goto(c, pc), record |-> record]
    IN
    CASE c.pc = "enter" ->
            Stays([c EXCEPT !.current_state = exercise_state["current_state"],
                            !.pc = IF exercise_type = "thumb_opposition"
                                   THEN "thumb_75"
                                   ELSE IF exercise_type = "finger_lifts"
                                   THEN "lifts_106"
                                   ELSE "clock_125"])
      [] c.pc = "thumb_75" ->
            IF startswith(new_state, "TOUCH_")
            THEN IF TouchAccepted(exercise_state, new_state)
                 THEN Stays(Goto(c, "touch_79"))
                 ELSE Stays(Returned(c, exercise_state, FALSE))
            ELSE IF new_state \in {"RELEASE", "TRANSITION"}
            THEN IF ReleaseAccepted(exercise_state)
                 THEN Stays(Goto(c, "release_94"))
                 ELSE Stays(Returned(c, exercise_state, FALSE))
            ELSE Stays(Returned(c, exercise_state, FALSE))
      [] c.pc = "touch_79" ->
            Writes("touch_80", Put(exercise_state, "is_touching", TRUE))
      [] c.pc = "touch_80" ->
            Writes("touch_82", Put(exercise_state, "sequence_index",
                                   NextSequenceIndex(exercise_state)))
      [] c.pc = "touch_82" ->
            Writes("commit", IF WrapsAround(exercise_state)
                             THEN CountRep(exercise_state)
                             ELSE exercise_state)
      [] c.pc = "release_94" ->
            Writes("commit", Release(exercise_state))
      [] c.pc = "lifts_106" ->
            IF new_state = "TRANSITION"
            THEN Stays(Returned(c, exercise_state, FALSE))
            ELSE Stays(Goto(c, "lifts_112"))
      [] c.pc = "lifts_112" ->
            Writes("lifts_116", IF FingerLiftCounts(c.current_state, new_state)
                                THEN CountRep(exercise_state)
                                ELSE exercise_state)
      [] c.pc = "lifts_116" ->
            IF new_state # c.current_state
            THEN Stays(Goto(c, "commit"))
            ELSE Stays(Returned(c, exercise_state, FALSE))
      [] c.pc = "clock_125" ->
            Stays([c EXCEPT !.time_since_change =
                                t - exercise_state["last_state_change"],
                            !.pc = "test_128"])
      [] c.pc = "test_128" ->
            IF new_state = "TRANSITION"
            THEN Stays(Returned(c, exercise_state, FALSE))
            ELSE IF new_state # c.current_state /\ HoldElapsed(c.time_since_change)
            THEN Stays(Goto(c, "count_138"))
            ELSE Stays(Returned(c, exercise_state, FALSE))
      [] c.pc = "count_138" ->
            Writes("commit",
                   IF CompletesCycle(exercise_type, c.current_state, new_state)
                   THEN CountRep(exercise_state)
                   ELSE exercise_state)
      [] c.pc = "commit" ->
            Writes("return", Commit(exercise_state, c.current_state, new_state, t))
      [] c.pc = "return" ->
            Stays(Returned(c, exercise_state, TRUE))

\* no handler is inside update_state
Quiet == \A s \in Sessions : calls.of[s].pc = "idle"

\* the labels two handlers submit at the same time
ConcurrentLabels(exercise_type) ==
    CASE exercise_type \in {"open_close", "pinch"} -> {"OPEN", "CLOSED"}
      [] exercise_type = "abduction_adduction" -> {"SPREAD", "CLOSED"}
      [] exercise_type = "finger_lifts" -> {"INDEX_UP", "NONE"}
      [] exercise_type = "thumb_opposition" -> {"TOUCH_PINKY", "RELEASE"}

\* the handlers of sessions a and b reach their update_state calls, with
\* the labels la and lb, before either call has run a statement
Fork(a, b, la, lb) ==
    /\ Quiet
    /\ a < b
    /\ states[driven]["repetitions"] + 2 <= MaxReps
    /\ calls' = [from |-> states[driven],
                 of |-> [s \in Sessions |->
                            IF s = a THEN [Idle EXCEPT !.pc = "enter", !.new_state = la]
                            ELSE IF s = b
                            THEN [Idle EXCEPT !.pc = "enter", !.new_state = lb]
                            ELSE Idle]]
    /\ ret' = [NoCall EXCEPT !.op = "concurrent", !.exercise_type = driven]
    /\ UNCHANGED <<states, now, hist, seq_progress, seen, driven>>

\* the call of session s runs its next statement
StepCall(s) ==
    /\ calls.of[s].pc \notin {"idle", "done"}
    /\ LET r == StepOf(driven, calls.of[s], states[driven], now) IN
       /\ states' = [states EXCEPT ![driven] = r.record]
       /\ calls' = [calls EXCEPT !.of[s] = r.call]
    /\ UNCHANGED <<now, ret, hist, seq_progress, seen, driven>>

NextConc ==
    \/ Quiet /\ Tick
    \/ Quiet /\ \E s \in Sessions, f \in FramesFor(driven) :
                    Analyze(s, Body(driven, f))
    \/ Quiet /\ \E s \in Sessions : ResetRoute(s, driven)
    \/ \E a, b \in Sessions, la, lb \in ConcurrentLabels(driven) :
            Fork(a, b, la, lb)
    \/ \E s \in Sessions : StepCall(s)

SpecConc == Init /\ [][NextConc]_vars

\* the two calls run one after the other on the record exercise_state, the
\* call with the label first before the call with the label second
Serial(exercise_type, exercise_state, first, second, t) ==
    LET r1 == UpdateRecord(exercise_type, exercise_state, first, t, t)
        r2 == UpdateRecord(exercise_type, r1.record, second, t, t)
    IN [record |-> r2.record,
        first |-> <<r1.changed, r1.repetitions>>,
        second |-> <<r2.changed, r2.repetitions>>]

\* C23: each update call is a single atomic operation: when two update
\* calls on the same exercise record are executed by request handlers that
\* run at the same time, the final record and both returned results are
\* those of one of the two serial orders, so that one CLOSED to OPEN edge
\* (or one _UP to NONE edge, or one TOUCH_PINKY) is never counted twice.
C23_UpdateCallsAtomic ==
    \A a, b \in Sessions :
        (a < b /\ calls.of[a].pc = "done" /\ calls.of[b].pc = "done") =>
            LET ca == calls.of[a]
                cb == calls.of[b]
                ab == Serial(driven, calls.from, ca.new_state, cb.new_state, now)
                ba == Serial(driven, calls.from, cb.new_state, ca.new_state, now)
            IN \/ /\ states[driven] = ab.record
                  /\ <<ca.changed, ca.repetitions>> = ab.first
                  /\ <<cb.changed, cb.repetitions>> = ab.second
               \/ /\ states[driven] = ba.record
                  /\ <<cb.changed, cb.repetitions>> = ba.first
                  /\ <<ca.changed, ca.repetitions>> = ba.second

----------------------------------------------------------------------------
(* The request handlers: the thresholds of thumb_opposition *)

\* the distance lies strictly between the touch and the release threshold
InBand(landmarks, target_finger) ==
    LET d == dist2(At(landmarks, 4), At(landmarks, TipIndex(target_finger))) * 1000
    IN d * 100 > 22 * palm_size(landmarks) /\ d * 100 < 28 * palm_size(landmarks)

\* C24: for thumb_opposition the touch and release thresholds form a
\* hysteresis band: analyze reports a touch only when the palm-normalized
\* distance from the thumb to the target finger is at most 0.22 and RELEASE
\* only when it is at least 0.28; a distance strictly between 0.22 and 0.28
\* gives neither a touch nor RELEASE.
C24_HysteresisBand ==
    [][LET t == "thumb_opposition" IN
       (ret'.op = "analyze" /\ ret'.exercise_type = t) =>
       \A s \in Sessions, f \in FramesFor(t) :
         (Len(f) = 21 /\ Requested(s, Body(t, f))) =>
           LET target == ExpectedFinger(states[t])
               d == dist2(At(f, 4), At(f, TipIndex(target))) * 1000
           IN /\ startswith(ret'.new_state, "TOUCH_") =>
                   d * 100 <= 22 * palm_size(f)
              /\ ret'.new_state = "RELEASE" => d * 100 >= 28 * palm_size(f)
              /\ InBand(f, target) =>
                   /\ ~startswith(ret'.new_state, "TOUCH_")
                   /\ ret'.new_state # "RELEASE"]_vars

----------------------------------------------------------------------------
(* The state machine: reset *)

\* the time between two calls that follow a reset
Delays == {0, TickMs, 2 * TickMs}

\* what two update calls return, made on the record exercise_state with the
\* labels l1 and l2 at the times t1 and t2
Results(exercise_type, exercise_state, l1, l2, t1, t2) ==
    LET r1 == UpdateRecord(exercise_type, exercise_state, l1, t1, t1)
        r2 == UpdateRecord(exercise_type, r1.record, l2, t2, t2)
    IN <<r1.changed, r1.repetitions, r2.changed, r2.repetitions>>

\* the record of a state machine created at t, with OPEN for the rest label
\* of abduction_adduction and finger_lifts
InitialRecordAtOpen(exercise_type, t) ==
    IF exercise_type \in {"abduction_adduction", "finger_lifts"}
    THEN [InitialStates(t)[exercise_type] EXCEPT !["current_state"] = "OPEN",
                                                 !["previous_state"] = "OPEN"]
    ELSE InitialStates(t)[exercise_type]

\* the last call was reset(e) and no update call has followed
JustReset(e) == ret.op = "reset" /\ ret.exercise_type = e

\* C25 as stated: reset(exercise_type) reinitializes the record to the state
\* it has at session start: for every exercise type and the labels submitted
\* afterwards, with the same relative timing, the changed flags and counts
\* returned after a reset are those a freshly created state machine returns.
C25_ResetEqualsFresh ==
    \A e \in ExerciseTypes :
        JustReset(e) =>
            LET t0 == states[e]["last_state_change"] IN
            \A l1, l2 \in LabelsFor(e), d1, d2 \in Delays :
                Results(e, states[e], l1, l2, t0 + d1, t0 + d1 + d2)
                  = Results(e, InitialStates(t0)[e], l1, l2, t0 + d1, t0 + d1 + d2)

\* C25 as amended: reset(exercise_type) writes the record with the label
\* OPEN, the count 0 and the time of the reset, and without cursor and
\* is_touching, which then read INDEX and false.  For open_close, pinch and
\* thumb_opposition the changed flags and counts returned after a reset are
\* those a freshly created state machine returns; for abduction_adduction
\* and finger_lifts they are those of a fresh state machine that starts at
\* OPEN in place of CLOSED and NONE.
C25_ResetEqualsFreshAtOpen ==
    \A e \in ExerciseTypes :
        JustReset(e) =>
            LET t0 == states[e]["last_state_change"] IN
            /\ states[e]["current_state"] = "OPEN"
            /\ states[e]["repetitions"] = 0
            /\ \A l1, l2 \in LabelsFor(e), d1, d2 \in Delays :
                Results(e, states[e], l1, l2, t0 + d1, t0 + d1 + d2)
                  = Results(e, InitialRecordAtOpen(e, t0), l1, l2,
                            t0 + d1, t0 + d1 + d2)

\* C25 witness: thumb_opposition was reset after the clock had moved, and
\* the hold time has passed since.
C25_Witness ==
    /\ JustReset("thumb_opposition")
    /\ states["thumb_opposition"]["last_state_change"] > 0
    /\ now - states["thumb_opposition"]["last_state_change"] >= MIN_STATE_DURATION
    /\ "is_touching" \notin DOMAIN states["thumb_opposition"]

----------------------------------------------------------------------------
(* The state machine called on two exercise types in one run: the one the  *)
(* client has open and a second one                                         *)

\* the second exercise type of the run
Partner(exercise_type) ==
    CASE exercise_type = "open_close" -> "thumb_opposition"
      [] exercise_type = "pinch" -> "finger_lifts"
      [] exercise_type = "abduction_adduction" -> "open_close"
      [] exercise_type = "thumb_opposition" -> "abduction_adduction"
      [] exercise_type = "finger_lifts" -> "pinch"

\* the labels each exercise moves between
KeyLabels(exercise_type) ==
    CASE exercise_type \in {"open_close", "pinch"} -> {"OPEN", "CLOSED"}
      [] exercise_type = "abduction_adduction" -> {"SPREAD", "CLOSED"}
      [] exercise_type = "finger_lifts" -> {"INDEX_UP", "NONE"}
      [] exercise_type = "thumb_opposition" -> {"TOUCH_INDEX", "RELEASE"}

NextPair ==
    \/ Tick
    \/ \E e \in {driven, Partner(driven)} :
            \E l \in KeyLabels(e) : UpdateStateCall(e, l)
    \/ \E e \in {driven, Partner(driven)} : ResetCall(e)

SpecPair == Init /\ [][NextPair]_vars

\* C26: update_state(X, label) and reset(X) write only the record of
\* exercise X: the labels, counts, timestamps, cursor and is_touching of
\* every other exercise type are unchanged by the call, for every X and
\* every label.
C26_OnlyOwnRecordWritten ==
    [][\A e \in ExerciseTypes :
        ( /\ ret'.op \in {"update_state", "reset"}
          /\ ret'.exercise_type = e
          /\ \/ WasReset(e)
             \/ \E l \in KeyLabels(e) : Called(e, l) )
        => \A other \in ExerciseTypes \ {e} : states'[other] = states[other]]_vars

\* C26 witness: a call on the exercise the client has open was accepted
\* while the record of the second exercise holds a count and a label that
\* are not its initial ones.
C26_Witness ==
    /\ ret.op = "update_state"
    /\ ret.exercise_type = driven
    /\ ret.changed
    /\ states[driven]["repetitions"] >= 1
    /\ states[Partner(driven)]["repetitions"] >= 1
    /\ states[Partner(driven)]["current_state"]
         # InitialStates(0)[Partner(driven)]["current_state"]

----------------------------------------------------------------------------
(* The state machine: invariants of the records *)

\* the cursor of thumb_opposition
Cursor(S) == Get(S["thumb_opposition"], "sequence_index", 0)

\* C27: for thumb_opposition, in every reachable state the sequence cursor
\* is in 0..3 and the number of touches accepted since the start or the last
\* reset equals 4 * repetition count + cursor; the count is incremented
\* exactly in the update call that accepts TOUCH_PINKY, where the cursor
\* wraps from 3 to 0, before any RELEASE that follows.
C27_ThumbCursorAndCount ==
    /\ [](/\ Cursor(states) \in 0..3
          /\ seen.touches = 4 * states["thumb_opposition"]["repetitions"]
                              + Cursor(states))
    /\ [][LET t == "thumb_opposition" IN
          \A l \in LabelsFor(t) :
            Called(t, l) =>
              /\ states'[t]["repetitions"] # states[t]["repetitions"]
                   <=> (l = "TOUCH_PINKY" /\ ret'.changed)
              /\ (l = "TOUCH_PINKY" /\ ret'.changed) =>
                   /\ Cursor(states) = 3
                   /\ Cursor(states') = 0
                   /\ states'[t]["repetitions"] = states[t]["repetitions"] + 1
                   /\ ret'.repetitions = states[t]["repetitions"] + 1
                   /\ Get(states'[t], "is_touching", FALSE)]_vars

\* C27 witness: the second round is under way: nine touches were accepted,
\* the count is 2 and the cursor is at MIDDLE.
C27_Witness ==
    /\ seen.touches = 9
    /\ states["thumb_opposition"]["repetitions"] = 2
    /\ Cursor(states) = 1
    /\ ret.op = "update_state"

\* C28: for every exercise type the changed flag returned by update_state
\* matches the effect on the record: with changed=false the whole record
\* (current and previous label, count, timestamp, cursor, is_touching) is
\* unchanged; with changed=true the current label is the submitted label and
\* the previous label is the former current label and differs from it; the
\* count changes only in calls that return changed=true, and then by
\* exactly 1.
C28_ChangedFlagMatchesRecord ==
    [][\A e \in ExerciseTypes : \A l \in LabelsFor(e) :
        Called(e, l) =>
          /\ ~ret'.changed => states'[e] = states[e]
          /\ ret'.changed =>
               /\ states'[e]["current_state"] = l
               /\ states'[e]["previous_state"] = states[e]["current_state"]
               /\ states'[e]["previous_state"] # states'[e]["current_state"]
          /\ states'[e]["repetitions"] # states[e]["repetitions"] =>
               /\ ret'.changed
               /\ states'[e]["repetitions"] = states[e]["repetitions"] + 1
          /\ ret'.repetitions = states'[e]["repetitions"]]_vars

\* C28 witness: finger_lifts accepted INDEX_UP, returned changed=false for
\* the same label again, then accepted NONE and counted: the record holds
\* NONE with INDEX_UP before it.
C28_Witness ==
    /\ Len(hist["finger_lifts"]) = 3
    /\ hist["finger_lifts"][1] =
         [new_state |-> "INDEX_UP", changed |-> TRUE, before |-> 0, after |-> 0]
    /\ hist["finger_lifts"][2] =
         [new_state |-> "INDEX_UP", changed |-> FALSE, before |-> 0, after |-> 0]
    /\ hist["finger_lifts"][3] =
         [new_state |-> "NONE", changed |-> TRUE, before |-> 0, after |-> 1]
    /\ states["finger_lifts"]["current_state"] = "NONE"
    /\ states["finger_lifts"]["previous_state"] = "INDEX_UP"

====
